---------------------------- MODULE Spec2Model ----------------------------
(***************************************************************************)
(* A model of fabrique's Factory derive:                                   *)
(*   - the schema analysis of fabrique-derive/src/analysis.rs              *)
(*     (FabriqueFieldAttributes, FactoryAnalysis, Relation), and           *)
(*   - the builder that fabrique-derive/src/codegen.rs generates           *)
(*     (new, the field setters, for_<relation>, create), run against a     *)
(*     Persistable implementation (fabrique-core/src/lib.rs),              *)
(*   - the darling-based analysis of fabrique-derive/src/factory, and      *)
(*   - the query the Persistable derive generates                          *)
(*     (fabrique-derive/src/persistable/codegen.rs).                       *)
(***************************************************************************)
EXTENDS Integers, Sequences, FiniteSets, TLC

VARIABLES
    \* ---- schema analysis (FactoryAnalysis::analyze) ----
    input,      \* the DeriveInput under analysis
    apc,        \* position of the analysis: "shape", "fields", "done"
    idx,        \* index of the next field the map closure of fields() visits
    out,        \* FactoryFieldAnalysisOutput values collected so far
    aresult,    \* what analyze() returned (NoResult until it returns)
    parsed,     \* indexes of the fields handed to from_field, in call order
    \* ---- generated factory at run time ----
    pc,         \* "building", "running", "done"
    builder,    \* the factory value the caller is chaining on
    stack,      \* activations of the generated create(), innermost last
    ret,        \* value a finished create() is returning to its caller
    result,     \* what the outermost create() returned
    log,        \* Persistable::create calls and callback applications, in order
    hist,       \* summary of the calls chained on the outermost factory
    \* ---- Persistable derive (PersistableCodegen) ----
    pinput,     \* the record type under derivation: name, identity override, fields
    ppc,        \* "analysis", "codegen", "done"
    panalysis,  \* the Analysis the code generator is built from
    pquery      \* the query string of the generated all()

avars == <<input, apc, idx, out, aresult, parsed>>
rvars == <<pc, builder, stack, ret, result, log, hist>>
pvars == <<pinput, ppc, panalysis, pquery>>
vars == <<input, apc, idx, out, aresult, parsed,
          pc, builder, stack, ret, result, log, hist,
          pinput, ppc, panalysis, pquery>>

----------------------------------------------------------------------------
(* Bounds of the model *)

\* largest number of fields of an analysed DeriveInput
MaxFields == 2
\* largest number of chained calls on the outermost factory before create()
MaxOps == 2
\* field setters are given values 1..MaxVal (0 is u32's Default)
MaxVal == 2

----------------------------------------------------------------------------
(* Option and Result *)

None == [some |-> FALSE]
Some(v) == [some |-> TRUE, v |-> v]

Ok(v) == [tag |-> "Ok", val |-> v]
Err(e) == [tag |-> "Err", err |-> e]
\* a panic inside the macro: the analysis ends without returning anything
Panic == [tag |-> "Panic"]
NoResult == [tag |-> "NoResult"]

\* the `?` operator: go on with the value of an Ok, return anything else as it is
AndThen(r, F(_)) == IF r.tag = "Ok" THEN F(r.val) ELSE r

\* `let x = v;` followed by the code that uses x
With(v, F(_)) == F(v)

\* Option::unwrap_or
UnwrapOr(o, d) == IF o.some THEN o.v ELSE d

\* Option::or (both operands are already evaluated)
OptOr(a, b) == IF a.some THEN a ELSE b

----------------------------------------------------------------------------
(* Strings: identifiers are TLA+ strings, read one character at a time *)

Chr(s, i) == SubSeq(s, i, i)

Letters ==
    {"a", "b", "c", "d", "e", "f", "g", "h", "i", "j", "k", "l", "m",
     "n", "o", "p", "q", "r", "s", "t", "u", "v", "w", "x", "y", "z",
     "A", "B", "C", "D", "E", "F", "G", "H", "I", "J", "K", "L", "M",
     "N", "O", "P", "Q", "R", "S", "T", "U", "V", "W", "X", "Y", "Z"}
Digits == {"0", "1", "2", "3", "4", "5", "6", "7", "8", "9"}
Keywords == {"self", "type", "struct", "enum", "fn", "true", "false"}

\* what proc_macro2 accepts as an identifier: Ident::new panics on the rest
IsIdent(s) ==
    /\ Len(s) > 0
    /\ Chr(s, 1) \in Letters \cup {"_"}
    /\ \A i \in 1..Len(s) : Chr(s, i) \in Letters \cup Digits \cup {"_"}

\* syn::parse_str::<Ident>: one identifier token that is not a keyword
ParsesAsIdent(s) == IsIdent(s) /\ s \notin Keywords

\* str::parse::<bool>
ParseBool(s) ==
    IF s = "true" THEN Some(TRUE)
    ELSE IF s = "false" THEN Some(FALSE)
    ELSE None

\* str::rsplit_once("_"): split at the last underscore
RSplitOnce(s) ==
    LET us == {i \in 1..Len(s) : Chr(s, i) = "_"}
    IN  IF us = {} THEN None
        ELSE LET p == CHOOSE i \in us : \A j \in us : j <= i
             IN  Some([pre |-> SubSeq(s, 1, p - 1),
                       suf |-> SubSeq(s, p + 1, Len(s))])

\* str::strip_suffix
StripSuffix(s, suf) ==
    IF /\ Len(s) >= Len(suf)
       /\ SubSeq(s, Len(s) - Len(suf) + 1, Len(s)) = suf
    THEN Some(SubSeq(s, 1, Len(s) - Len(suf)))
    ELSE None

----------------------------------------------------------------------------
(* The syntax tree handed to the macro (syn), reduced to what analysis reads *)

LitStr(s) == [e |-> "Lit", lit |-> "Str", text |-> s]
LitBool(b) == [e |-> "Lit", lit |-> "Bool", text |-> IF b THEN "true" ELSE "false"]
LitInt(t) == [e |-> "Lit", lit |-> "Int", text |-> t]
\* a path is the sequence of its segments: <<"id">> is `id`, <<"a", "B">> is `a::B`
PathExpr(p) == [e |-> "Path", path |-> p]
Assign(l, r) == [e |-> "Assign", left |-> l, right |-> r]

\* #[path(exprs)]; parses is FALSE when the arguments are no expression list
MetaList(p, exprs, toks) ==
    [path |-> p, meta |-> "List", parses |-> TRUE, exprs |-> exprs, tokens |-> toks]
MetaListBroken(p, toks) ==
    [path |-> p, meta |-> "List", parses |-> FALSE, exprs |-> <<>>, tokens |-> toks]
\* #[path = value]
MetaNameValue(p, value, toks) ==
    [path |-> p, meta |-> "NameValue", parses |-> TRUE, exprs |-> <<value>>, tokens |-> toks]
\* #[path]
MetaPath(p, toks) ==
    [path |-> p, meta |-> "Path", parses |-> TRUE, exprs |-> <<>>, tokens |-> toks]

NamedField(name, attrs) == [ident |-> Some(name), ty |-> "u32", attrs |-> attrs]
UnnamedField(attrs) == [ident |-> None, ty |-> "u32", attrs |-> attrs]

DeriveInput(data, name, fields) == [data |-> data, ident |-> name, fields |-> fields]

\* syn::Path::is_ident
PathIsIdent(p, s) == p = <<s>>
\* syn::Path::get_ident
PathGetIdent(p) == IF Len(p) = 1 THEN Some(p[1]) ELSE None

RECURSIVE JoinPath(_)
JoinPath(p) ==
    IF Len(p) = 0 THEN ""
    ELSE IF Len(p) = 1 THEN p[1]
    ELSE p[1] \o " :: " \o JoinPath(Tail(p))

\* ToTokens::to_token_stream().to_string() of an expression
Tokens(x) ==
    IF x.e = "Lit" THEN (IF x.lit = "Str" THEN "\"" \o x.text \o "\"" ELSE x.text)
    ELSE IF x.e = "Path" THEN JoinPath(x.path)
    ELSE IF x.e = "Assign" THEN "<assign>"
    ELSE "<expr>"

----------------------------------------------------------------------------
(* error.rs as analysis.rs uses it *)

UnparsableAttribute(s) == [tag |-> "UnparsableAttribute", arg |-> s]
UnparsableLiteral(s) == [tag |-> "UnparsableLiteral", arg |-> s]
UnparsableType(s) == [tag |-> "UnparsableType", arg |-> s]
UnknownAttribute(s) == [tag |-> "UnknownAttribute", arg |-> s]
MissingReferencedKey(s) == [tag |-> "MissingReferencedKey", arg |-> s]
UnsupportedDataStructureEnum == [tag |-> "UnsupportedDataStructureEnum", arg |-> ""]
UnsupportedDataStructureTupleStruct == [tag |-> "UnsupportedDataStructureTupleStruct", arg |-> ""]
UnsupportedDataStructureUnion == [tag |-> "UnsupportedDataStructureUnion", arg |-> ""]
UnsupportedDataStructureUnitStruct == [tag |-> "UnsupportedDataStructureUnitStruct", arg |-> ""]

----------------------------------------------------------------------------
(* FabriqueFieldAttributes *)

DefaultAttributes == [primary_key |-> FALSE, relation |-> None, referenced_key |-> None]

\* mutant: a key that is not recognised is skipped
ParseNameValueIgnoringUnknown(self, path, value) ==
    IF PathIsIdent(path, "primary_key") THEN
        IF value.e = "Lit" /\ value.lit = "Bool" /\ value.text = "true"
        THEN Ok([self EXCEPT !.primary_key = TRUE])
        ELSE IF value.e = "Lit" /\ value.lit = "Str"
        THEN (IF ParseBool(value.text).some
              THEN Ok([self EXCEPT !.primary_key = ParseBool(value.text).v])
              ELSE Err(UnparsableLiteral(value.text)))
        ELSE Err(UnparsableLiteral(Tokens(value)))
    ELSE IF PathIsIdent(path, "relation") THEN
        IF value.e = "Lit" /\ value.lit = "Str"
        THEN (IF ParsesAsIdent(value.text)
              THEN Ok([self EXCEPT !.relation = Some(value.text)])
              ELSE Err(UnparsableType(value.text)))
        ELSE IF value.e = "Path"
        THEN Ok([self EXCEPT !.relation = PathGetIdent(value.path)])
        ELSE Err(UnparsableType(Tokens(value)))
    ELSE IF PathIsIdent(path, "referenced_key") THEN
        IF value.e = "Lit" /\ value.lit = "Str"
        THEN (IF IsIdent(value.text)
              THEN Ok([self EXCEPT !.referenced_key = Some(value.text)])
              ELSE Panic)
        ELSE IF value.e = "Path"
        THEN Ok([self EXCEPT !.referenced_key = PathGetIdent(value.path)])
        ELSE Err(UnparsableType(Tokens(value)))
    ELSE Ok(self)

\* FabriqueFieldAttributes::parse_name_value: Ok(updated attributes), Err or Panic
ParseNameValue(self, path, value) ==
    IF PathIsIdent(path, "primary_key") THEN
        IF value.e = "Lit" /\ value.lit = "Bool" /\ value.text = "true"
        THEN Ok([self EXCEPT !.primary_key = TRUE])
        ELSE IF value.e = "Lit" /\ value.lit = "Str"
        THEN (IF ParseBool(value.text).some
              THEN Ok([self EXCEPT !.primary_key = ParseBool(value.text).v])
              ELSE Err(UnparsableLiteral(value.text)))
        ELSE Err(UnparsableLiteral(Tokens(value)))
    ELSE IF PathIsIdent(path, "relation") THEN
        IF value.e = "Lit" /\ value.lit = "Str"
        THEN (IF ParsesAsIdent(value.text)
              THEN Ok([self EXCEPT !.relation = Some(value.text)])
              ELSE Err(UnparsableType(value.text)))
        ELSE IF value.e = "Path"
        THEN Ok([self EXCEPT !.relation = PathGetIdent(value.path)])
        ELSE Err(UnparsableType(Tokens(value)))
    ELSE IF PathIsIdent(path, "referenced_key") THEN
        IF value.e = "Lit" /\ value.lit = "Str"
        THEN (IF IsIdent(value.text)
              THEN Ok([self EXCEPT !.referenced_key = Some(value.text)])
              ELSE Panic)
        ELSE IF value.e = "Path"
        THEN Ok([self EXCEPT !.referenced_key = PathGetIdent(value.path)])
        ELSE Err(UnparsableType(Tokens(value)))
    ELSE Err(UnknownAttribute(UnwrapOr(PathGetIdent(path), "")))

\* one expression of a #[fabrique(...)] list
ParseExpr(self, expr, attribute) ==
    IF expr.e = "Assign" THEN
        IF expr.left.e = "Path"
        THEN ParseNameValue(self, expr.left.path, expr.right)
        ELSE Err(UnparsableAttribute(attribute.tokens))
    ELSE IF expr.e = "Path" THEN ParseNameValue(self, expr.path, LitBool(TRUE))
    ELSE Err(UnparsableAttribute(attribute.tokens))

RECURSIVE ParseExprs(_, _, _)
ParseExprs(self, exprs, attribute) ==
    IF exprs = <<>> THEN Ok(self)
    ELSE AndThen(ParseExpr(self, Head(exprs), attribute),
                 LAMBDA updated : ParseExprs(updated, Tail(exprs), attribute))

\* mutant: every fabrique attribute starts again from the default attributes
ParseAttributeFromDefault(self, attribute) ==
    IF attribute.meta = "NameValue"
    THEN ParseNameValue(DefaultAttributes, attribute.path, attribute.exprs[1])
    ELSE IF attribute.meta = "List"
    THEN (IF attribute.parses
          THEN ParseExprs(DefaultAttributes, attribute.exprs, attribute)
          ELSE Err(UnparsableAttribute(attribute.tokens)))
    ELSE Err(UnparsableAttribute(attribute.tokens))

\* the body of the loop of from_field, for one fabrique attribute
ParseAttribute(self, attribute) ==
    IF attribute.meta = "NameValue"
    THEN ParseNameValue(self, attribute.path, attribute.exprs[1])
    ELSE IF attribute.meta = "List"
    THEN (IF attribute.parses
          THEN ParseExprs(self, attribute.exprs, attribute)
          ELSE Err(UnparsableAttribute(attribute.tokens)))
    ELSE Err(UnparsableAttribute(attribute.tokens))

RECURSIVE ParseAttributes(_, _)
ParseAttributes(self, attrs) ==
    IF attrs = <<>> THEN Ok(self)
    ELSE IF ~PathIsIdent(Head(attrs).path, "fabrique")
    THEN ParseAttributes(self, Tail(attrs))
    ELSE AndThen(ParseAttribute(self, Head(attrs)),
                 LAMBDA updated : ParseAttributes(updated, Tail(attrs)))

\* FabriqueFieldAttributes::from_field
FromField(field) == ParseAttributes(DefaultAttributes, field.attrs)

----------------------------------------------------------------------------
(* Relation *)

\* mutant: the relation is named after the whole field name
RelationNamedAfterUnstripped(field_name, split, attributes) ==
    IF split.some /\ ~IsIdent(split.v.suf) THEN Panic
    ELSE With(OptOr(attributes.referenced_key,
                    IF split.some THEN Some(split.v.suf) ELSE None),
              LAMBDA referenced_key :
                IF ~referenced_key.some THEN Err(MissingReferencedKey(field_name))
                ELSE Ok(Some([factory_field |-> field_name \o "_factory",
                              referenced_type |-> attributes.relation.v,
                              referenced_key |-> referenced_key.v,
                              name |-> field_name])))

\* the tail of Relation::new, once the field name is split at its last `_`
RelationNamedAfter(field_name, split, attributes) ==
    \* the operand of or() is evaluated first: Ident::new(suffix)
    IF split.some /\ ~IsIdent(split.v.suf) THEN Panic
    ELSE With(OptOr(attributes.referenced_key,
                    IF split.some THEN Some(split.v.suf) ELSE None),
              LAMBDA referenced_key :
                IF ~referenced_key.some THEN Err(MissingReferencedKey(field_name))
                ELSE With(UnwrapOr(StripSuffix(field_name, "_" \o referenced_key.v),
                                   field_name),
                          LAMBDA name :
                            Ok(Some([factory_field |-> name \o "_factory",
                                     referenced_type |-> attributes.relation.v,
                                     referenced_key |-> referenced_key.v,
                                     name |-> name]))))

\* Relation::new: Ok(None), Ok(Some(relation)), Err or Panic
RelationNew(field, attributes) ==
    IF ~attributes.relation.some THEN Ok(None)
    ELSE IF ~field.ident.some THEN Err(UnsupportedDataStructureTupleStruct)
    ELSE RelationNamedAfter(field.ident.v, RSplitOnce(field.ident.v), attributes)

----------------------------------------------------------------------------
(* FactoryAnalysis *)

\* mutant: a union goes on to field parsing like a struct with named fields
NamedFieldsOfUnionAsStruct(inp) ==
    IF inp.data \in {"StructNamed", "Union"} THEN Ok(inp.fields)
    ELSE IF inp.data = "StructUnit" THEN Err(UnsupportedDataStructureUnitStruct)
    ELSE IF inp.data = "StructUnnamed" THEN Err(UnsupportedDataStructureTupleStruct)
    ELSE Err(UnsupportedDataStructureEnum)

\* the match on self.input.data at the head of fields()
NamedFieldsOf(inp) ==
    IF inp.data = "StructNamed" THEN Ok(inp.fields)
    ELSE IF inp.data = "StructUnit" THEN Err(UnsupportedDataStructureUnitStruct)
    ELSE IF inp.data = "StructUnnamed" THEN Err(UnsupportedDataStructureTupleStruct)
    ELSE IF inp.data = "Enum" THEN Err(UnsupportedDataStructureEnum)
    ELSE Err(UnsupportedDataStructureUnion)

\* the closure fields() maps over the named fields
AnalyzeField(field) ==
    AndThen(FromField(field), LAMBDA attributes :
        AndThen(RelationNew(field, attributes), LAMBDA relation :
            Ok([field |-> field,
                primary_key |-> attributes.primary_key,
                relation |-> relation])))

\* collect::<Result<Vec<_>, _>>(): stops at the first field that fails
RECURSIVE CollectFields(_, _)
CollectFields(fields, acc) ==
    IF fields = <<>> THEN Ok(acc)
    ELSE AndThen(AnalyzeField(Head(fields)),
                 LAMBDA f : CollectFields(Tail(fields), Append(acc, f)))

\* FactoryAnalysis::analyze, as one function
Analyze(inp) ==
    AndThen(NamedFieldsOf(inp), LAMBDA named :
        AndThen(CollectFields(named, <<>>), LAMBDA fields :
            Ok([base_struct_ident |-> inp.ident, fields |-> fields])))

\* FactoryAnalysisOutput::relations: the fields that carry a relation, in order
RelationsOf(output) ==
    SelectSeq(output.fields, LAMBDA f : f.relation.some)

----------------------------------------------------------------------------
(* The record types the generated factories are run for.                   *)
(* Anvil and Hammer follow fabrique/tests/integration_test.rs; Anvil has a *)
(* second relation whose referenced key is not `id`, and Hammer a relation *)
(* of its own, so that relations nest.                                     *)

Fabrique(exprs) == MetaList(<<"fabrique">>, exprs, "#[fabrique(..)]")
RelationAttr(ty, key) ==
    Fabrique(<<Assign(PathExpr(<<"relation">>), LitStr(ty)),
               Assign(PathExpr(<<"referenced_key">>), LitStr(key))>>)
PrimaryKeyAttr == Fabrique(<<PathExpr(<<"primary_key">>)>>)

AnvilDecl ==
    DeriveInput("StructNamed", "Anvil",
        <<NamedField("id", <<PrimaryKeyAttr>>),
          NamedField("hammer_id", <<RelationAttr("Hammer", "id")>>),
          NamedField("spare_weight", <<RelationAttr("Hammer", "weight")>>)>>)

HammerDecl ==
    DeriveInput("StructNamed", "Hammer",
        <<NamedField("id", <<PrimaryKeyAttr>>),
          NamedField("weight", <<>>),
          NamedField("handle_id", <<RelationAttr("Handle", "id")>>)>>)

HandleDecl ==
    DeriveInput("StructNamed", "Handle",
        <<NamedField("id", <<PrimaryKeyAttr>>)>>)

Types == {"Anvil", "Hammer", "Handle"}

\* Record types that relate to each other in a cycle: a Nut has a Bolt and a
\* Bolt has a Nut
NutDecl ==
    DeriveInput("StructNamed", "Nut",
        <<NamedField("id", <<PrimaryKeyAttr>>),
          NamedField("bolt_id", <<RelationAttr("Bolt", "id")>>)>>)

BoltDecl ==
    DeriveInput("StructNamed", "Bolt",
        <<NamedField("id", <<PrimaryKeyAttr>>),
          NamedField("nut_id", <<RelationAttr("Nut", "id")>>)>>)

CyclicTypes == {"Nut", "Bolt"}

AllTypes == Types \cup CyclicTypes

Decl(T) ==
    IF T = "Anvil" THEN AnvilDecl
    ELSE IF T = "Hammer" THEN HammerDecl
    ELSE IF T = "Handle" THEN HandleDecl
    ELSE IF T = "Nut" THEN NutDecl
    ELSE BoltDecl

\* FactoryCodegen::from: the analysis output each factory is generated from
Schema == [T \in AllTypes |-> Analyze(Decl(T)).val]

\* self.analysis.fields, as field names in declaration order
FieldSeqs ==
    [T \in AllTypes |->
        [i \in 1..Len(Schema[T].fields) |-> Schema[T].fields[i].field.ident.v]]
FieldSeq(T) == FieldSeqs[T]
FieldNameSets == [T \in AllTypes |-> {FieldSeq(T)[i] : i \in 1..Len(FieldSeq(T))}]
FieldNames(T) == FieldNameSets[T]

\* self.analysis.relations: owner field, factory field, related type, base name,
\* and the referenced key the analysis derived
RelationSeqs ==
    [T \in AllTypes |->
        LET rs == RelationsOf(Schema[T])
        IN  [i \in 1..Len(rs) |->
                [field |-> rs[i].field.ident.v,
                 ident |-> rs[i].relation.v.factory_field,
                 ty |-> rs[i].relation.v.referenced_type,
                 name |-> rs[i].relation.v.name,
                 referenced_key |-> rs[i].relation.v.referenced_key]]]
Relations(T) == RelationSeqs[T]
RelationSlots(T) == {Relations(T)[i].ident : i \in 1..Len(Relations(T))}
RelationNames(T) == {Relations(T)[i].name : i \in 1..Len(Relations(T))}
RelationNamed(T, name) ==
    Relations(T)[CHOOSE i \in 1..Len(Relations(T)) : Relations(T)[i].name = name]

\* <u32 as Default>::default()
Default == 0

----------------------------------------------------------------------------
(* The generated factory *)

\* mutant: a new factory starts with a callback pending for every relation
NewWithPendingCallbacks(T) ==
    [ty |-> T,
     fields |-> [f \in FieldNames(T) |-> None],
     relations |-> [r \in RelationSlots(T) |-> Some(<<>>)]]

\* generate_factory_method_new
New(T) ==
    [ty |-> T,
     fields |-> [f \in FieldNames(T) |-> None],
     relations |-> [r \in RelationSlots(T) |-> None]]

\* mutant: a field setter keeps the value the field already has
FieldSetterFirstWins(self, name, value) ==
    IF self.fields[name].some THEN self
    ELSE [self EXCEPT !.fields[name] = Some(value)]

\* generate_factory_method_fields: pub fn #name(mut self, #name: #ty) -> Self
FieldSetter(self, name, value) ==
    [self EXCEPT !.fields[name] = Some(value)]

\* mutant: for_<relation> chains the new callback after the pending one
ForRelationAccumulating(self, name, callback) ==
    [self EXCEPT !.relations[RelationNamed(self.ty, name).ident] =
        Some((IF @.some THEN @.v ELSE <<>>) \o callback)]

\* generate_factory_methods_for_relation: pub fn for_#name(mut self, callback) -> Self
ForRelation(self, name, callback) ==
    [self EXCEPT !.relations[RelationNamed(self.ty, name).ident] = Some(callback)]

\* A callback is the chain of calls its closure makes on the factory it is given.
SetOp(name, value) == [op |-> "set", name |-> name, arg |-> value]
ForOp(name, callback) == [op |-> "for", name |-> name, arg |-> callback]

\* mutant: the for_<relation> calls a callback makes are dropped
ApplyOpDroppingFor(self, o) ==
    IF o.op = "set" THEN FieldSetter(self, o.name, o.arg)
    ELSE self

ApplyOp(self, o) ==
    IF o.op = "set" THEN FieldSetter(self, o.name, o.arg)
    ELSE ForRelation(self, o.name, o.arg)

\* callback(factory)
RECURSIVE ApplyCallback(_, _)
ApplyCallback(callback, self) ==
    IF callback = <<>> THEN self
    ELSE ApplyCallback(Tail(callback), ApplyOp(self, Head(callback)))

\* mutant: an empty relation field is filled with 1 instead of the default
ConstructRelationsFromOne(self) ==
    [f \in FieldNames(self.ty) |->
        UnwrapOr(self.fields[f],
                 IF \E i \in 1..Len(Relations(self.ty)) : Relations(self.ty)[i].field = f
                 THEN 1 ELSE Default)]

\* the struct literal of create(): #name: self.#name.unwrap_or(Default::default())
Construct(self) ==
    [f \in FieldNames(self.ty) |-> UnwrapOr(self.fields[f], Default)]

\* the key create() copies out of the created related instance
ExtractedKey(relation, instance) == instance["id"]

----------------------------------------------------------------------------
(* Inputs of the run-time model *)

Values == 1..MaxVal

\* closures that leave the factory alone or set one field
LeafCallbacks(T) ==
    {<<>>} \cup {<<SetOp(f, v)>> : f \in FieldNames(T), v \in Values}

\* closures that may also customise one relation of the related factory
CallbackSets ==
    [T \in AllTypes |->
        LeafCallbacks(T) \cup
        UNION {{<<ForOp(Relations(T)[i].name, c)>> : c \in LeafCallbacks(Relations(T)[i].ty)}
               : i \in 1..Len(Relations(T))}]
Callbacks(T) == CallbackSets[T]

\* an identifier a Persistable implementation generates on insertion
GeneratedId == MaxVal + 1

\* the errors of the Persistable implementation (one Error type for all records,
\* so the From conversion of `?` is the reflexive one)
PersistErrors == {"E1", "E2"}

\* what Persistable::create may answer for an instance
PersistOutcomes(instance) ==
    {Ok(instance), Ok([instance EXCEPT !["id"] = GeneratedId])}
    \cup {Err(e) : e \in PersistErrors}

----------------------------------------------------------------------------
(* Run of a generated factory: chaining, then create()                     *)

Event(ev, ty, path, val) == [ev |-> ev, ty |-> ty, path |-> path, val |-> val]

\* an activation of create(): `path` is the chain of relation indexes that
\* leads from the outermost factory to this one
Frame(self, path) == [self |-> self, rel |-> 1, at |-> "relations", path |-> path]

Top == stack[Len(stack)]
ReplaceTop(f) == [stack EXCEPT ![Len(stack)] = f]
Pop == SubSeq(stack, 1, Len(stack) - 1)

AnalysisIdle ==
    /\ input = DeriveInput("StructNamed", "Idle", <<>>)
    /\ apc = "idle"
    /\ idx = 1
    /\ out = <<>>
    /\ aresult = NoResult
    /\ parsed = <<>>

PersistableIdle ==
    /\ pinput = None
    /\ ppc = "idle"
    /\ panalysis = None
    /\ pquery = ""

\* What the caller has chained so far on the outermost factory:
\*   n      number of chained calls,
\*   set    last value given to each field setter (None: never called),
\*   sets   number of calls of each field setter,
\*   cb     last callback given to each for_<relation> (None: never called),
\*   fors   number of calls of each for_<relation>,
\*   order  for each relation, the order of the last call of its field's
\*          setter and the last call of its for_: "none", "set", "for",
\*          "set,for" (setter first) or "for,set"
NoCalls(T) ==
    [n |-> 0,
     set |-> [f \in FieldNames(T) |-> None],
     sets |-> [f \in FieldNames(T) |-> 0],
     cb |-> [r \in RelationSlots(T) |-> None],
     fors |-> [r \in RelationSlots(T) |-> 0],
     order |-> [r \in RelationSlots(T) |-> "none"]]

AfterSetter(h, T, name, value) ==
    [h EXCEPT !.n = @ + 1,
              !.set[name] = Some(value),
              !.sets[name] = @ + 1,
              !.order = [r \in RelationSlots(T) |->
                            IF \E i \in 1..Len(Relations(T)) :
                                  /\ Relations(T)[i].ident = r
                                  /\ Relations(T)[i].field = name
                            THEN (IF h.order[r] \in {"none", "set"} THEN "set" ELSE "for,set")
                            ELSE h.order[r]]]

AfterFor(h, T, name, callback) ==
    LET r == RelationNamed(T, name).ident
    IN  [h EXCEPT !.n = @ + 1,
                  !.cb[r] = Some(callback),
                  !.fors[r] = @ + 1,
                  !.order[r] = IF @ \in {"none", "for"} THEN "for" ELSE "set,for"]

\* T::factory()
Init ==
    /\ AnalysisIdle
    /\ PersistableIdle
    /\ pc = "building"
    /\ \E T \in Types : builder = New(T) /\ hist = NoCalls(T)
    /\ stack = <<>>
    /\ ret = None
    /\ result = NoResult
    /\ log = <<>>

\* mutant: the setter of a relation field drops the callback of its relation
CallFieldSetterClearingCallback(name, value) ==
    /\ pc = "building"
    /\ hist.n < MaxOps
    /\ name \in FieldNames(builder.ty)
    /\ builder' =
          [FieldSetter(builder, name, value) EXCEPT
              !.relations = [r \in RelationSlots(builder.ty) |->
                                IF \E i \in 1..Len(Relations(builder.ty)) :
                                      /\ Relations(builder.ty)[i].ident = r
                                      /\ Relations(builder.ty)[i].field = name
                                THEN None
                                ELSE builder.relations[r]]]
    /\ hist' = AfterSetter(hist, builder.ty, name, value)
    /\ UNCHANGED <<pc, stack, ret, result, log>>

\* factory.<field>(value)
CallFieldSetter(name, value) ==
    /\ pc = "building"
    /\ hist.n < MaxOps
    /\ name \in FieldNames(builder.ty)
    /\ builder' = FieldSetter(builder, name, value)
    /\ hist' = AfterSetter(hist, builder.ty, name, value)
    /\ UNCHANGED <<pc, stack, ret, result, log>>

\* factory.for_<relation>(callback)
CallForRelation(name, callback) ==
    /\ pc = "building"
    /\ hist.n < MaxOps
    /\ name \in RelationNames(builder.ty)
    /\ builder' = ForRelation(builder, name, callback)
    /\ hist' = AfterFor(hist, builder.ty, name, callback)
    /\ UNCHANGED <<pc, stack, ret, result, log>>

\* factory.create(connection)
CallCreate ==
    /\ pc = "building"
    /\ pc' = "running"
    /\ stack' = <<Frame(builder, <<>>)>>
    /\ UNCHANGED <<builder, ret, result, log, hist>>

\* mutant: a relation is passed over although its callback is pending
SkipRelationEvenIfPending ==
    /\ pc = "running" /\ stack # <<>> /\ ~ret.some
    /\ Top.at = "relations"
    /\ Top.rel <= Len(Relations(Top.self.ty))
    /\ stack' = ReplaceTop([Top EXCEPT !.rel = @ + 1])
    /\ UNCHANGED <<pc, builder, ret, result, log, hist>>

\* `if let Some(callback) = self.#ident` with an empty slot: nothing to do
SkipRelation ==
    /\ pc = "running" /\ stack # <<>> /\ ~ret.some
    /\ Top.at = "relations"
    /\ Top.rel <= Len(Relations(Top.self.ty))
    /\ ~Top.self.relations[Relations(Top.self.ty)[Top.rel].ident].some
    /\ stack' = ReplaceTop([Top EXCEPT !.rel = @ + 1])
    /\ UNCHANGED <<pc, builder, ret, result, log, hist>>

\* mutant: a relation is followed whether or not a callback is pending
EnterRelationAlways ==
    /\ pc = "running" /\ stack # <<>> /\ ~ret.some
    /\ Top.at = "relations"
    /\ Top.rel <= Len(Relations(Top.self.ty))
    /\ Len(stack) <= 3
    /\ LET relation == Relations(Top.self.ty)[Top.rel]
           slot == Top.self.relations[relation.ident]
           path == Append(Top.path, Top.rel)
       IN  /\ stack' = Append(
                  ReplaceTop([Top EXCEPT !.at = "nested",
                                         !.self.relations[relation.ident] = None]),
                  Frame(ApplyCallback(UnwrapOr(slot, <<>>), New(relation.ty)), path))
           /\ log' = Append(log, Event("apply", relation.ty, path, UnwrapOr(slot, <<>>)))
    /\ UNCHANGED <<pc, builder, ret, result, hist>>

\* `callback(#ty::new()).create(connection)`: the callback is moved out of its
\* slot, applied to a new factory of the related type, and create() is entered
EnterRelation ==
    /\ pc = "running" /\ stack # <<>> /\ ~ret.some
    /\ Top.at = "relations"
    /\ Top.rel <= Len(Relations(Top.self.ty))
    /\ LET relation == Relations(Top.self.ty)[Top.rel]
           slot == Top.self.relations[relation.ident]
           path == Append(Top.path, Top.rel)
       IN  /\ slot.some
           /\ stack' = Append(
                  ReplaceTop([Top EXCEPT !.at = "nested",
                                         !.self.relations[relation.ident] = None]),
                  Frame(ApplyCallback(slot.v, New(relation.ty)), path))
           /\ log' = Append(log, Event("apply", relation.ty, path, slot.v))
    /\ UNCHANGED <<pc, builder, ret, result, hist>>

\* mutant: the owner is persisted without waiting for its relations
CallPersistBeforeRelations ==
    /\ pc = "running" /\ stack # <<>> /\ ~ret.some
    /\ Top.at = "relations"
    /\ stack' = ReplaceTop([Top EXCEPT !.at = "persist"])
    /\ log' = Append(log, Event("call", Top.self.ty, Top.path, Construct(Top.self)))
    /\ UNCHANGED <<pc, builder, ret, result, hist>>

\* `let instance = #struct_ident { .. }; instance.create(connection)`
CallPersist ==
    /\ pc = "running" /\ stack # <<>> /\ ~ret.some
    /\ Top.at = "relations"
    /\ Top.rel > Len(Relations(Top.self.ty))
    /\ stack' = ReplaceTop([Top EXCEPT !.at = "persist"])
    /\ log' = Append(log, Event("call", Top.self.ty, Top.path, Construct(Top.self)))
    /\ UNCHANGED <<pc, builder, ret, result, hist>>

\* mutant: create() returns the instance it submitted instead of the stored one
PersistReturnsSubmitted ==
    /\ pc = "running" /\ stack # <<>> /\ ~ret.some
    /\ Top.at = "persist"
    /\ \E answer \in PersistOutcomes(Construct(Top.self)) :
          /\ log' = Append(log, Event("return", Top.self.ty, Top.path, answer))
          /\ ret' = Some(IF answer.tag = "Ok" THEN Ok(Construct(Top.self)) ELSE answer)
    /\ stack' = Pop
    /\ UNCHANGED <<pc, builder, result, hist>>

\* Persistable::create answers, and create() returns the answer as it is
PersistReturns ==
    /\ pc = "running" /\ stack # <<>> /\ ~ret.some
    /\ Top.at = "persist"
    /\ \E answer \in PersistOutcomes(Construct(Top.self)) :
          /\ log' = Append(log, Event("return", Top.self.ty, Top.path, answer))
          /\ ret' = Some(answer)
    /\ stack' = Pop
    /\ UNCHANGED <<pc, builder, result, hist>>

\* mutant: a value given to the field setter is kept over the related key
StoreKeyUnlessSet ==
    /\ pc = "running" /\ stack # <<>> /\ ret.some
    /\ ret.v.tag = "Ok"
    /\ Top.at = "nested"
    /\ LET relation == Relations(Top.self.ty)[Top.rel]
       IN  stack' = ReplaceTop(
               [Top EXCEPT !.self.fields[relation.field] =
                               IF @.some THEN @
                               ELSE Some(ExtractedKey(relation, ret.v.val)),
                           !.rel = @ + 1,
                           !.at = "relations"])
    /\ ret' = None
    /\ UNCHANGED <<pc, builder, result, log, hist>>

\* `.await?` on Ok: `self.#field = Some(instance.id)`, then the next relation
StoreKey ==
    /\ pc = "running" /\ stack # <<>> /\ ret.some
    /\ ret.v.tag = "Ok"
    /\ Top.at = "nested"
    /\ LET relation == Relations(Top.self.ty)[Top.rel]
       IN  stack' = ReplaceTop(
               [Top EXCEPT !.self.fields[relation.field] =
                               Some(ExtractedKey(relation, ret.v.val)),
                           !.rel = @ + 1,
                           !.at = "relations"])
    /\ ret' = None
    /\ UNCHANGED <<pc, builder, result, log, hist>>

\* mutant: a failed relation is skipped and create() goes on
PropagateErrorSwallowed ==
    /\ pc = "running" /\ stack # <<>> /\ ret.some
    /\ ret.v.tag = "Err"
    /\ Top.at = "nested"
    /\ stack' = ReplaceTop([Top EXCEPT !.rel = @ + 1, !.at = "relations"])
    /\ ret' = None
    /\ UNCHANGED <<pc, builder, result, log, hist>>

\* `.await?` on Err: create() returns the error at once
PropagateError ==
    /\ pc = "running" /\ stack # <<>> /\ ret.some
    /\ ret.v.tag = "Err"
    /\ Top.at = "nested"
    /\ stack' = Pop
    /\ UNCHANGED <<pc, builder, ret, result, log, hist>>

\* mutant: after a failure the outermost create() is run once more
FinishRetrying ==
    /\ pc = "running" /\ stack = <<>> /\ ret.some
    /\ IF /\ ret.v.tag = "Err"
          /\ Cardinality({k \in 1..Len(log) :
                             log[k].ev = "return" /\ log[k].val.tag = "Err"}) < 2
       THEN /\ stack' = <<Frame(builder, <<>>)>>
            /\ ret' = None
            /\ UNCHANGED <<pc, result>>
       ELSE /\ result' = ret.v
            /\ ret' = None
            /\ pc' = "done"
            /\ UNCHANGED stack
    /\ UNCHANGED <<builder, log, hist>>

\* the outermost create() hands its result to the caller
Finish ==
    /\ pc = "running" /\ stack = <<>> /\ ret.some
    /\ result' = ret.v
    /\ ret' = None
    /\ pc' = "done"
    /\ UNCHANGED <<builder, stack, log, hist>>

Next ==
    \/ \E T \in AllTypes : \E name \in FieldNames(T) : \E value \in Values :
          CallFieldSetter(name, value) /\ UNCHANGED <<avars, pvars>>
    \/ \E T \in AllTypes : \E name \in RelationNames(T) :
          \E callback \in Callbacks(RelationNamed(T, name).ty) :
             /\ builder.ty = T
             /\ CallForRelation(name, callback)
             /\ UNCHANGED <<avars, pvars>>
    \/ CallCreate /\ UNCHANGED <<avars, pvars>>
    \/ SkipRelation /\ UNCHANGED <<avars, pvars>>
    \/ EnterRelation /\ UNCHANGED <<avars, pvars>>
    \/ CallPersist /\ UNCHANGED <<avars, pvars>>
    \/ PersistReturns /\ UNCHANGED <<avars, pvars>>
    \/ StoreKey /\ UNCHANGED <<avars, pvars>>
    \/ PropagateError /\ UNCHANGED <<avars, pvars>>
    \/ Finish /\ UNCHANGED <<avars, pvars>>

Spec == Init /\ [][Next]_vars

\* the steps of a create() that was called: the executor polls the future
\* until it is ready, and Persistable::create is taken to answer
CreateStep ==
    /\ \/ SkipRelation
       \/ EnterRelation
       \/ CallPersist
       \/ PersistReturns
       \/ StoreKey
       \/ PropagateError
       \/ Finish
    /\ UNCHANGED <<avars, pvars>>

\* Nut::factory() or Bolt::factory()
InitCyclic ==
    /\ AnalysisIdle
    /\ PersistableIdle
    /\ pc = "building"
    /\ \E T \in CyclicTypes : builder = New(T) /\ hist = NoCalls(T)
    /\ stack = <<>>
    /\ ret = None
    /\ result = NoResult
    /\ log = <<>>

\* factories of record types that relate to each other in a cycle, with a
\* create() that is driven to its end
SpecCyclic == InitCyclic /\ [][Next]_vars /\ WF_vars(CreateStep)

----------------------------------------------------------------------------
(* Inputs of the analysis model *)

Attr(exprs) == <<Fabrique(exprs)>>
KeyValue(key, value) == Assign(PathExpr(<<key>>), value)

\* attribute lists a field may carry: well formed ones and malformed ones
AttrPool ==
    {<<>>,
     Attr(<<PathExpr(<<"primary_key">>)>>),
     Attr(<<KeyValue("relation", LitStr("Hammer"))>>),
     Attr(<<KeyValue("relation", LitStr("Hammer")),
            KeyValue("referenced_key", LitStr("id"))>>),
     Attr(<<KeyValue("unknown", LitBool(TRUE))>>),
     Attr(<<KeyValue("relation", LitBool(TRUE))>>),
     Attr(<<KeyValue("relation", LitStr("Not A Valid Type")),
            KeyValue("referenced_key", LitStr("id"))>>),
     Attr(<<KeyValue("relation", LitStr("Hammer")),
            KeyValue("referenced_key", LitInt("123"))>>),
     Attr(<<KeyValue("relation", LitStr("Hammer")),
            KeyValue("referenced_key", LitStr(""))>>),
     <<MetaPath(<<"fabrique">>, "#[fabrique]")>>}

FieldIdents == {"weight", "hammer", "hammer_id"}

\* named fields (structs, unions, struct-like enum variants)
NamedFieldPool == {NamedField(n, a) : n \in FieldIdents, a \in AttrPool}
\* unnamed fields (tuple structs, tuple-like enum variants)
UnnamedFieldPool == {UnnamedField(a) : a \in AttrPool}

SeqsUpTo(S, n) == UNION {[1..k -> S] : k \in 0..n}

\* the fields written inside each kind of item
FieldsOfKind(data) ==
    IF data = "StructUnit" THEN {<<>>}
    ELSE IF data = "StructUnnamed" THEN SeqsUpTo(UnnamedFieldPool, MaxFields)
    ELSE IF data = "Enum" THEN SeqsUpTo(NamedFieldPool \cup UnnamedFieldPool, MaxFields)
    ELSE SeqsUpTo(NamedFieldPool, MaxFields)

DataKinds == {"StructNamed", "StructUnit", "StructUnnamed", "Enum", "Union"}

----------------------------------------------------------------------------
(* Run of the analysis: FactoryAnalysis::from(input).analyze()             *)

RuntimeIdle ==
    /\ pc = "idle"
    /\ builder = None
    /\ stack = <<>>
    /\ ret = None
    /\ result = NoResult
    /\ log = <<>>
    /\ hist = None

\* FactoryAnalysis::from
InitAnalysis ==
    /\ RuntimeIdle
    /\ PersistableIdle
    /\ \E data \in DataKinds : \E fields \in FieldsOfKind(data) :
          input = DeriveInput(data, "Anvil", fields)
    /\ apc = "shape"
    /\ idx = 1
    /\ out = <<>>
    /\ aresult = NoResult
    /\ parsed = <<>>

\* fields(): the match on the shape of the item
MatchShape ==
    /\ apc = "shape"
    /\ LET named == NamedFieldsOf(input)
       IN  IF named.tag = "Ok"
           THEN apc' = "fields" /\ aresult' = aresult
           ELSE apc' = "done" /\ aresult' = named
    /\ UNCHANGED <<input, idx, out, parsed>>

\* fields(): the closure applied to the next field; collect() stops at the
\* first field for which it fails
VisitField ==
    /\ apc = "fields"
    /\ idx <= Len(input.fields)
    /\ parsed' = Append(parsed, idx)
    /\ LET r == AnalyzeField(input.fields[idx])
       IN  IF r.tag = "Ok"
           THEN /\ out' = Append(out, r.val)
                /\ idx' = idx + 1
                /\ UNCHANGED <<apc, aresult>>
           ELSE /\ aresult' = r
                /\ apc' = "done"
                /\ UNCHANGED <<out, idx>>
    /\ UNCHANGED input

\* analyze(): every field went through, the output is returned
ReturnOutput ==
    /\ apc = "fields"
    /\ idx > Len(input.fields)
    /\ aresult' = Ok([base_struct_ident |-> input.ident, fields |-> out])
    /\ apc' = "done"
    /\ UNCHANGED <<input, idx, out, parsed>>

NextAnalysis ==
    \/ MatchShape /\ UNCHANGED <<rvars, pvars>>
    \/ VisitField /\ UNCHANGED <<rvars, pvars>>
    \/ ReturnOutput /\ UNCHANGED <<rvars, pvars>>

SpecAnalysis == InitAnalysis /\ [][NextAnalysis]_vars

----------------------------------------------------------------------------
(* Inputs of the analysis of relation fields: named structs whose fields    *)
(* are annotated the ways a relation can be declared                        *)

\* #[factory(..)]: the other attribute namespace the derive registers
FactoryNamespace(exprs) == <<MetaList(<<"factory">>, exprs, "#[factory(..)]")>>

RelationAttrPool ==
    {<<>>,
     Attr(<<KeyValue("relation", LitStr("Hammer"))>>),
     Attr(<<KeyValue("relation", LitStr("Hammer")),
            KeyValue("referenced_key", LitStr("id"))>>),
     Attr(<<KeyValue("relation", LitStr("Hammer")),
            KeyValue("referenced_key", LitStr("weight"))>>),
     Attr(<<KeyValue("relation", LitStr("Hammer")),
            KeyValue("extract", LitStr("id"))>>),
     FactoryNamespace(<<KeyValue("relation", LitStr("Hammer"))>>),
     Attr(<<KeyValue("unknown", LitBool(TRUE))>>),
     Attr(<<Assign(PathExpr(<<"fabrique", "unknown">>), LitBool(TRUE))>>)}

\* field names without an underscore, with a suffix after the last
\* underscore, and with nothing after it
RelationFieldIdents == {"hammer", "hammer_id", "hammer_", "id"}

RelationFieldPool ==
    {NamedField(n, a) : n \in RelationFieldIdents, a \in RelationAttrPool}

\* FactoryAnalysis::from, for a struct with named fields
InitRelationAnalysis ==
    /\ RuntimeIdle
    /\ PersistableIdle
    /\ \E fields \in SeqsUpTo(RelationFieldPool, MaxFields) :
          input = DeriveInput("StructNamed", "Anvil", fields)
    /\ apc = "shape"
    /\ idx = 1
    /\ out = <<>>
    /\ aresult = NoResult
    /\ parsed = <<>>

SpecRelationAnalysis == InitRelationAnalysis /\ [][NextAnalysis]_vars

----------------------------------------------------------------------------
(* Inputs of the analysis of attribute values: fields that carry several    *)
(* fabrique attributes or repeat a key, every way of writing primary_key,   *)
(* and relation targets written as paths                                    *)

\* two #[fabrique(..)] attributes on one field
TwoAttrs(first, second) == <<Fabrique(first), Fabrique(second)>>

AttributeValuePool ==
    {<<>>,
     \* keys spread over two attributes, or repeated
     TwoAttrs(<<KeyValue("relation", LitStr("Hammer"))>>,
              <<KeyValue("referenced_key", LitStr("id"))>>),
     Attr(<<KeyValue("relation", LitStr("Hammer")),
            KeyValue("relation", LitStr("Anvil")),
            KeyValue("referenced_key", LitStr("id"))>>),
     TwoAttrs(<<KeyValue("relation", LitStr("Hammer")),
                KeyValue("referenced_key", LitStr("id"))>>,
              <<KeyValue("relation", LitStr("Anvil"))>>),
     TwoAttrs(<<KeyValue("referenced_key", LitStr("id"))>>,
              <<KeyValue("relation", LitStr("Hammer")),
                KeyValue("referenced_key", LitStr("weight"))>>),
     TwoAttrs(<<PathExpr(<<"primary_key">>)>>,
              <<KeyValue("primary_key", LitStr("false"))>>),
     Attr(<<KeyValue("primary_key", LitStr("false")),
            PathExpr(<<"primary_key">>)>>),
     \* primary_key as a flag, with a boolean, a string, and other values
     Attr(<<PathExpr(<<"primary_key">>)>>),
     Attr(<<KeyValue("primary_key", LitBool(TRUE))>>),
     Attr(<<KeyValue("primary_key", LitBool(FALSE))>>),
     Attr(<<KeyValue("primary_key", LitStr("true"))>>),
     Attr(<<KeyValue("primary_key", LitStr("false"))>>),
     Attr(<<KeyValue("primary_key", LitStr("maybe"))>>),
     Attr(<<KeyValue("primary_key", LitInt("123"))>>),
     \* the relation target as a type path
     Attr(<<KeyValue("relation", PathExpr(<<"Hammer">>)),
            KeyValue("referenced_key", LitStr("id"))>>),
     Attr(<<KeyValue("relation", PathExpr(<<"crate", "Hammer">>)),
            KeyValue("referenced_key", LitStr("id"))>>)}

AttributeFieldIdents == {"id", "hammer_id"}

AttributeFieldPool ==
    {NamedField(n, a) : n \in AttributeFieldIdents, a \in AttributeValuePool}

\* FactoryAnalysis::from, for a struct with named fields
InitAttributeAnalysis ==
    /\ RuntimeIdle
    /\ PersistableIdle
    /\ \E fields \in SeqsUpTo(AttributeFieldPool, MaxFields) :
          input = DeriveInput("StructNamed", "Anvil", fields)
    /\ apc = "shape"
    /\ idx = 1
    /\ out = <<>>
    /\ aresult = NoResult
    /\ parsed = <<>>

SpecAttributeAnalysis == InitAttributeAnalysis /\ [][NextAnalysis]_vars

----------------------------------------------------------------------------
(* The darling-based analysis of factory/analysis.rs                        *)

\* an error of darling's FromField (darling gathers the problems of a field
\* into one error)
DarlingError(s) == [tag |-> "Darling", arg |-> s]

\* darling's FromMeta for one `key` or `key = value` item of #[fabrique(..)]
DarlingItem(self, path, value) ==
    IF PathIsIdent(path, "primary_key") THEN
        IF value.e = "Lit" /\ value.lit = "Bool"
        THEN Ok([self EXCEPT !.primary_key = (value.text = "true")])
        ELSE IF value.e = "Lit" /\ value.lit = "Str" /\ ParseBool(value.text).some
        THEN Ok([self EXCEPT !.primary_key = ParseBool(value.text).v])
        ELSE Err(DarlingError("primary_key"))
    ELSE IF PathIsIdent(path, "relation") THEN
        IF value.e = "Lit" /\ value.lit = "Str" /\ ParsesAsIdent(value.text)
        THEN Ok([self EXCEPT !.relation = Some(value.text)])
        ELSE IF value.e = "Path" /\ PathGetIdent(value.path).some
        THEN Ok([self EXCEPT !.relation = PathGetIdent(value.path)])
        ELSE Err(DarlingError("relation"))
    ELSE IF PathIsIdent(path, "referenced_key") THEN
        IF value.e = "Lit" /\ value.lit = "Str" /\ ParsesAsIdent(value.text)
        THEN Ok([self EXCEPT !.referenced_key = Some(value.text)])
        ELSE IF value.e = "Path" /\ PathGetIdent(value.path).some
        THEN Ok([self EXCEPT !.referenced_key = PathGetIdent(value.path)])
        ELSE Err(DarlingError("referenced_key"))
    ELSE Err(DarlingError(JoinPath(path)))

RECURSIVE DarlingItems(_, _)
DarlingItems(self, exprs) ==
    IF exprs = <<>> THEN Ok(self)
    ELSE IF Head(exprs).e = "Assign" /\ Head(exprs).left.e = "Path"
    THEN AndThen(DarlingItem(self, Head(exprs).left.path, Head(exprs).right),
                 LAMBDA updated : DarlingItems(updated, Tail(exprs)))
    ELSE IF Head(exprs).e = "Path"
    THEN AndThen(DarlingItem(self, Head(exprs).path, LitBool(TRUE)),
                 LAMBDA updated : DarlingItems(updated, Tail(exprs)))
    ELSE Err(DarlingError("<item>"))

\* #[darling(attributes(fabrique))]: the attributes of other namespaces are
\* skipped, a fabrique attribute has to be a list
RECURSIVE DarlingAttributes(_, _)
DarlingAttributes(self, attrs) ==
    IF attrs = <<>> THEN Ok(self)
    ELSE IF ~PathIsIdent(Head(attrs).path, "fabrique")
    THEN DarlingAttributes(self, Tail(attrs))
    ELSE IF Head(attrs).meta = "List" /\ Head(attrs).parses
    THEN AndThen(DarlingItems(self, Head(attrs).exprs),
                 LAMBDA updated : DarlingAttributes(updated, Tail(attrs)))
    ELSE Err(DarlingError(Head(attrs).tokens))

\* the derived FabriqueFieldAttributes::from_field
FactoryFromField(field) == DarlingAttributes(DefaultAttributes, field.attrs)

\* mutant: without a referenced_key the suffix of the field name is used
FactoryRelationNewWithSuffix(field, attributes) == RelationNew(field, attributes)

\* factory::analysis::Relation::new
FactoryRelationNew(field, attributes) ==
    IF ~attributes.relation.some THEN Ok(None)
    ELSE IF ~field.ident.some THEN Err(UnsupportedDataStructureTupleStruct)
    ELSE IF ~attributes.referenced_key.some
    THEN Err(MissingReferencedKey(field.ident.v))
    ELSE With(UnwrapOr(StripSuffix(field.ident.v, "_" \o attributes.referenced_key.v),
                       field.ident.v),
              LAMBDA name :
                Ok(Some([factory_field |-> name \o "_factory",
                         referenced_type |-> attributes.relation.v,
                         referenced_key |-> attributes.referenced_key.v,
                         name |-> name])))

\* the match on self.input.data at the head of fields()
FactoryNamedFieldsOf(inp) ==
    IF inp.data = "StructNamed" THEN Ok(inp.fields)
    ELSE IF inp.data = "StructUnit" THEN Err(UnsupportedDataStructureUnitStruct)
    ELSE IF inp.data = "StructUnnamed" THEN Err(UnsupportedDataStructureTupleStruct)
    ELSE IF inp.data = "Enum" THEN Err(UnsupportedDataStructureEnum)
    ELSE Err(UnsupportedDataStructureUnion)

\* the closure fields() maps over the named fields
FactoryAnalyzeField(field) ==
    AndThen(FactoryFromField(field), LAMBDA attributes :
        AndThen(FactoryRelationNew(field, attributes), LAMBDA relation :
            Ok([field |-> field,
                primary_key |-> attributes.primary_key,
                relation |-> relation])))

FactoryAttrPool ==
    {<<>>,
     Attr(<<PathExpr(<<"primary_key">>)>>),
     Attr(<<KeyValue("relation", LitStr("Hammer"))>>),
     Attr(<<KeyValue("relation", LitStr("Hammer")),
            KeyValue("referenced_key", LitStr("id"))>>),
     Attr(<<KeyValue("unknown", LitBool(TRUE))>>)}

FactoryFieldsOfKind(data) ==
    IF data = "StructUnit" THEN {<<>>}
    ELSE IF data = "StructUnnamed"
    THEN SeqsUpTo({UnnamedField(a) : a \in FactoryAttrPool}, MaxFields)
    ELSE SeqsUpTo({NamedField(n, a) : n \in FieldIdents, a \in FactoryAttrPool},
                  MaxFields)

\* factory::analysis::FactoryAnalysis::from
InitFactoryAnalysis ==
    /\ RuntimeIdle
    /\ PersistableIdle
    /\ \E data \in DataKinds : \E fields \in FactoryFieldsOfKind(data) :
          input = DeriveInput(data, "Anvil", fields)
    /\ apc = "shape"
    /\ idx = 1
    /\ out = <<>>
    /\ aresult = NoResult
    /\ parsed = <<>>

FactoryMatchShape ==
    /\ apc = "shape"
    /\ LET named == FactoryNamedFieldsOf(input)
       IN  IF named.tag = "Ok"
           THEN apc' = "fields" /\ aresult' = aresult
           ELSE apc' = "done" /\ aresult' = named
    /\ UNCHANGED <<input, idx, out, parsed>>

FactoryVisitField ==
    /\ apc = "fields"
    /\ idx <= Len(input.fields)
    /\ parsed' = Append(parsed, idx)
    /\ LET r == FactoryAnalyzeField(input.fields[idx])
       IN  IF r.tag = "Ok"
           THEN /\ out' = Append(out, r.val)
                /\ idx' = idx + 1
                /\ UNCHANGED <<apc, aresult>>
           ELSE /\ aresult' = r
                /\ apc' = "done"
                /\ UNCHANGED <<out, idx>>
    /\ UNCHANGED input

FactoryReturnOutput ==
    /\ apc = "fields"
    /\ idx > Len(input.fields)
    /\ aresult' = Ok([base_struct_ident |-> input.ident, fields |-> out])
    /\ apc' = "done"
    /\ UNCHANGED <<input, idx, out, parsed>>

NextFactoryAnalysis ==
    \/ FactoryMatchShape /\ UNCHANGED <<rvars, pvars>>
    \/ FactoryVisitField /\ UNCHANGED <<rvars, pvars>>
    \/ FactoryReturnOutput /\ UNCHANGED <<rvars, pvars>>

SpecFactoryAnalysis == InitFactoryAnalysis /\ [][NextFactoryAnalysis]_vars

----------------------------------------------------------------------------
(* The Persistable derive: PersistableCodegen::from, then generate_fn_all   *)

\* the record type handed to the derive: its name, the identity override it
\* is annotated with (None: not annotated), and its named fields
PersistableInput(name, table, fields) ==
    [ident |-> name, table |-> table, fields |-> fields]

UpperCase == "ABCDEFGHIJKLMNOPQRSTUVWXYZ"
LowerCase == "abcdefghijklmnopqrstuvwxyz"

\* char::to_lowercase on the letters of an identifier
LowerChar(c) ==
    IF \E i \in 1..Len(UpperCase) : Chr(UpperCase, i) = c
    THEN Chr(LowerCase, CHOOSE i \in 1..Len(UpperCase) : Chr(UpperCase, i) = c)
    ELSE c

RECURSIVE ToLowercase(_)
ToLowercase(s) ==
    IF Len(s) = 0 THEN ""
    ELSE LowerChar(Chr(s, 1)) \o ToLowercase(SubSeq(s, 2, Len(s)))

\* the storage identity: the override when there is one, else the lower-cased
\* type name in the plural
TableName(name, table) ==
    IF table.some THEN table.v ELSE ToLowercase(name) \o "s"

\* Analysis::from: the names PersistableCodegen reads (ident, fields, table_name)
PersistableAnalysis(inp) ==
    [ident |-> inp.ident,
     fields |-> inp.fields,
     table_name |-> TableName(inp.ident, inp.table)]

\* collect::<Vec<String>>().join(", ") over the fields that have a name
RECURSIVE ColumnNames(_)
ColumnNames(fields) ==
    IF fields = <<>> THEN ""
    ELSE IF ~Head(fields).ident.some THEN ColumnNames(Tail(fields))
    ELSE IF \A i \in 1..Len(Tail(fields)) : ~Tail(fields)[i].ident.some
    THEN Head(fields).ident.v
    ELSE Head(fields).ident.v \o ", " \o ColumnNames(Tail(fields))

\* mutant: the query reads from the type name
GenerateFnAllFromTypeName(analysis) ==
    "SELECT " \o ColumnNames(analysis.fields) \o " FROM " \o analysis.ident

\* generate_fn_all: the query string of the generated all()
GenerateFnAll(analysis) ==
    "SELECT " \o ColumnNames(analysis.fields) \o " FROM " \o analysis.table_name

PersistableTypeNames == {"Anvil", "Hammer", "Handle"}
TableOverrides == {None, Some("custom_anvils"), Some("tools")}
ColumnIdents == {"id", "weight", "hammer_id", "name"}

\* field lists without a repeated name
ColumnSeqs ==
    {f \in SeqsUpTo(ColumnIdents, MaxFields) :
        \A i, k \in 1..Len(f) : f[i] = f[k] => i = k}

\* derive_persistable is given a struct with named fields
InitPersistable ==
    /\ AnalysisIdle
    /\ RuntimeIdle
    /\ \E name \in PersistableTypeNames : \E table \in TableOverrides :
          \E columns \in ColumnSeqs :
             pinput = PersistableInput(name, table,
                          [i \in 1..Len(columns) |-> NamedField(columns[i], <<>>)])
    /\ ppc = "analysis"
    /\ panalysis = None
    /\ pquery = ""

\* PersistableCodegen::from
PersistableFrom ==
    /\ ppc = "analysis"
    /\ panalysis' = Some(PersistableAnalysis(pinput))
    /\ ppc' = "codegen"
    /\ UNCHANGED <<pinput, pquery>>

\* PersistableCodegen::generate
PersistableGenerate ==
    /\ ppc = "codegen"
    /\ pquery' = GenerateFnAll(panalysis.v)
    /\ ppc' = "done"
    /\ UNCHANGED <<pinput, panalysis>>

NextPersistable ==
    \/ PersistableFrom /\ UNCHANGED <<avars, rvars>>
    \/ PersistableGenerate /\ UNCHANGED <<avars, rvars>>

SpecPersistable == InitPersistable /\ [][NextPersistable]_vars

----------------------------------------------------------------------------
(* Reading the log of a run *)

\* positions of the events of one kind about the record at `path`
Events(ev, path) == {k \in 1..Len(log) : log[k].ev = ev /\ log[k].path = path}

\* the relations of the outermost factory, by index
TopRelations == Relations(builder.ty)
TopRelIdx == 1..Len(TopRelations)

\* the caller gave for_<relation> a callback for relation i
Pending(i) == hist.cb[TopRelations[i].ident].some

\* the referenced key of the relation is the primary key of the related record
KeyIsPrimary(relation) ==
    \E j \in 1..Len(Schema[relation.ty].fields) :
        /\ Schema[relation.ty].fields[j].field.ident.v = relation.referenced_key
        /\ Schema[relation.ty].fields[j].primary_key

\* the record with every field at its default
AllDefaults(T) == [f \in FieldNames(T) |-> Default]

----------------------------------------------------------------------------
(* Claims *)

\* C1: when the outermost factory has a pending callback for a relation,
\* Persistable::create of the related record is called and has returned Ok
\* before Persistable::create of the owner is called, and the instance the
\* owner submits carries the key of the stored related record in the
\* relation field (relations that reference the related record's primary
\* key, as hammer_id references Hammer.id). In particular
\* Anvil::factory().for_hammer(|h| h.id(v)).create(..) with a Persistable
\* that stores what it is given submits Anvil { hammer_id: v, ..default }.
C1_RelationCreatedFirst ==
    \A k \in Events("call", <<>>) : \A i \in TopRelIdx :
        Pending(i) =>
            \E c \in Events("call", <<i>>) : \E r \in Events("return", <<i>>) :
                /\ c < r /\ r < k
                /\ log[c].ty = TopRelations[i].ty
                /\ log[r].val.tag = "Ok"
                /\ KeyIsPrimary(TopRelations[i]) =>
                      log[k].val[TopRelations[i].field] =
                          log[r].val.val[TopRelations[i].referenced_key]
                /\ \A v \in Values :
                      (/\ builder.ty = "Anvil"
                       /\ hist.n = 1
                       /\ hist.cb["hammer_factory"] = Some(<<SetOp("id", v)>>)
                       /\ log[r].val = Ok(log[c].val))
                      => log[k].val = [AllDefaults("Anvil") EXCEPT !["hammer_id"] = v]

\* the run of the integration test: for_hammer(|h| h.id(2)), everything stored
\* as given, the created Anvil has hammer_id = 2
C1_Witness ==
    /\ pc = "done"
    /\ builder.ty = "Anvil"
    /\ hist.n = 1
    /\ hist.cb["hammer_factory"] = Some(<<SetOp("id", 2)>>)
    /\ result = Ok([AllDefaults("Anvil") EXCEPT !["hammer_id"] = 2])

\* C2: for every relation with a pending callback, the value create() stores
\* into the owner's relation field is the value of the field named by the
\* relation's referenced_key on the created related instance, whatever the
\* name of the referenced key.
C2_ReferencedKeyCopied ==
    \A k \in Events("call", <<>>) : \A i \in TopRelIdx :
        Pending(i) =>
            \A r \in Events("return", <<i>>) :
                log[r].val.tag = "Ok" =>
                    log[k].val[TopRelations[i].field] =
                        log[r].val.val[TopRelations[i].referenced_key]

\* C3: when the nested create() of a relation fails, nothing more happens in
\* the owner's create(): no later relation is resolved (no callback applied,
\* no related record created), Persistable::create is not called on the
\* owner, and the owner's create() returns that very error.
C3_FirstFailureAborts ==
    \A r \in 1..Len(log) :
        (log[r].ev = "return" /\ log[r].val.tag = "Err" /\ log[r].path # <<>>) =>
            /\ r = Len(log)
            /\ Events("call", <<>>) = {}
            /\ \A j \in TopRelIdx :
                  j > log[r].path[1] =>
                      Events("apply", <<j>>) = {} /\ Events("call", <<j>>) = {}
            /\ pc = "done" => result = log[r].val

\* the first relation of an Anvil failed while the second had a callback
\* pending: create() is over with that error
C3_Witness ==
    /\ pc = "done"
    /\ result.tag = "Err"
    /\ builder.ty = "Anvil"
    /\ Pending(1) /\ Pending(2)
    /\ log[Len(log)].path = <<1>>
    /\ log[Len(log)].val = result

\* C4: once the relations are resolved, create() returns exactly what
\* Persistable::create answered for the owning instance: the stored instance
\* (which may differ from the submitted one) or the error, unchanged.
C4_ResultIsPersistAnswer ==
    pc = "done" =>
        \A r \in Events("return", <<>>) : result = log[r].val

\* the Persistable implementation stored the owner under a generated id, and
\* that stored instance is what create() returned
C4_Witness ==
    /\ pc = "done"
    /\ result.tag = "Ok"
    /\ \E k \in Events("call", <<>>) : result.val # log[k].val
    /\ result.val["id"] = GeneratedId

\* the answer of Persistable::create for the owner is the instance it was given
OwnerStoredAsGiven ==
    \A r \in Events("return", <<>>) :
        \E k \in Events("call", <<>>) : log[r].val = Ok(log[k].val)

\* C5: a relation field given a value by its setter, with no callback given
\* for its relation, has that value in the instance create() submits and in
\* the created record; when the callback of the relation was given after the
\* setter was called, the field holds the key of the stored related instance
\* instead (relations that reference the related record's primary key).
C5_ExplicitValueOrRelatedKey ==
    \A k \in Events("call", <<>>) : \A i \in TopRelIdx :
        LET relation == TopRelations[i]
            field == relation.field
        IN  /\ (hist.set[field].some /\ ~Pending(i)) =>
                  /\ log[k].val[field] = hist.set[field].v
                  /\ (pc = "done" /\ result.tag = "Ok") =>
                        result.val[field] = hist.set[field].v
            /\ (hist.order[relation.ident] = "set,for" /\ KeyIsPrimary(relation)) =>
                  \E r \in Events("return", <<i>>) :
                      /\ log[r].val.tag = "Ok"
                      /\ log[k].val[field] = log[r].val.val[relation.referenced_key]
                      /\ (pc = "done" /\ result.tag = "Ok") =>
                            result.val[field] = log[r].val.val[relation.referenced_key]

\* .hammer_id(1).for_hammer(|h| h.id(2)).create(..): the created Anvil has
\* hammer_id = 2, the id of the stored Hammer
C5_Witness ==
    /\ pc = "done"
    /\ builder.ty = "Anvil"
    /\ hist.order["hammer_factory"] = "set,for"
    /\ hist.set["hammer_id"] = Some(1)
    /\ hist.cb["hammer_factory"] = Some(<<SetOp("id", 2)>>)
    /\ result.tag = "Ok"
    /\ result.val["hammer_id"] = 2

\* C6: create() on a factory nothing was chained on, with a Persistable that
\* stores what it is given, returns the record with every field at its
\* default, and Persistable::create is called for no other record.
C6_EmptyBuilderGivesDefaults ==
    (pc = "done" /\ hist.n = 0 /\ OwnerStoredAsGiven) =>
        /\ result = Ok(AllDefaults(builder.ty))
        /\ \A k \in 1..Len(log) : log[k].path = <<>> /\ log[k].ev \in {"call", "return"}
        /\ Cardinality(Events("call", <<>>)) = 1

\* Anvil::factory().create(..) is over and returned an Anvil
C6_Witness ==
    /\ pc = "done"
    /\ hist.n = 0
    /\ OwnerStoredAsGiven
    /\ builder.ty = "Anvil"
    /\ result.tag = "Ok"
    /\ Len(log) = 2

\* the chained call being made is the setter of field f
IsSetterStep(f) ==
    /\ pc = "building"
    /\ hist'.n = hist.n + 1
    /\ hist'.sets[f] = hist.sets[f] + 1

\* C7: a field setter changes the slot of its field to the value given and
\* nothing else of the factory (no other field slot, no pending callback);
\* and the instance create() submits has, in every field that no pending
\* relation callback overwrites, the last value its setter was given, or the
\* default when the setter was never called.
C7_SetterFrameAndLastValue ==
    /\ [][\A f \in FieldNames(builder.ty) :
              IsSetterStep(f) =>
                  /\ builder'.fields[f] = hist'.set[f]
                  /\ hist'.set[f].some
                  /\ \A g \in FieldNames(builder.ty) \ {f} :
                        builder'.fields[g] = builder.fields[g]
                  /\ builder'.relations = builder.relations
                  /\ builder'.ty = builder.ty]_vars
    /\ [](\A k \in Events("call", <<>>) : \A f \in FieldNames(builder.ty) :
              (\A i \in TopRelIdx : TopRelations[i].field = f => ~Pending(i)) =>
                  log[k].val[f] = UnwrapOr(hist.set[f], Default))

\* Hammer::factory().weight(..).weight(2).create(..) returned a Hammer of weight 2
C7_Witness ==
    /\ pc = "done"
    /\ builder.ty = "Hammer"
    /\ hist.sets["weight"] = 2
    /\ hist.set["weight"] = Some(2)
    /\ result.tag = "Ok"
    /\ result.val["weight"] = 2

\* C8: after for_<relation> was called more than once, the factory holds one
\* pending callback for the relation, the one given last; create() applies
\* that callback and no other, once, and Persistable::create is called for
\* one related record of that relation.
C8_LastCallbackOnly ==
    \A i \in TopRelIdx :
        LET slot == TopRelations[i].ident
        IN  hist.fors[slot] >= 2 =>
                /\ pc = "building" => builder.relations[slot] = hist.cb[slot]
                /\ \A a \in Events("apply", <<i>>) : Some(log[a].val) = hist.cb[slot]
                /\ Cardinality(Events("apply", <<i>>)) <= 1
                /\ Cardinality(Events("call", <<i>>)) <= 1
                /\ Events("call", <<>>) # {} =>
                      /\ Cardinality(Events("apply", <<i>>)) = 1
                      /\ Cardinality(Events("call", <<i>>)) = 1

\* for_hammer(..).for_hammer(|h| h.id(2)).create(..) created one Hammer, with
\* id 2, and the Anvil
C8_Witness ==
    /\ pc = "done"
    /\ builder.ty = "Anvil"
    /\ hist.fors["hammer_factory"] = 2
    /\ hist.cb["hammer_factory"] = Some(<<SetOp("id", 2)>>)
    /\ result.tag = "Ok"
    /\ result.val["hammer_id"] = 2
    /\ Cardinality(Events("call", <<1>>)) = 1

\* C9: a relation whose field setter and whose for_<relation> were never
\* called leaves its field at the default in the instance create() submits,
\* and nothing is applied or created for it; when that is so for every
\* relation, Persistable::create is called for the owner only.
C9_UntouchedRelationIsDefault ==
    \A k \in Events("call", <<>>) : \A i \in TopRelIdx :
        hist.order[TopRelations[i].ident] = "none" =>
            /\ log[k].val[TopRelations[i].field] = Default
            /\ \A e \in 1..Len(log) : log[e].path = <<>> \/ log[e].path[1] # i

\* an Anvil created with a callback for its second relation only: hammer_id
\* is the default and no record was created for the first relation
C9_Witness ==
    /\ pc = "done"
    /\ builder.ty = "Anvil"
    /\ hist.order["hammer_factory"] = "none"
    /\ Pending(2)
    /\ result.tag = "Ok"
    /\ result.val["hammer_id"] = Default
    /\ Events("call", <<1>>) = {}
    /\ Events("call", <<2>>) # {}

\* the error of error.rs for each shape that is not a struct with named fields
UnsupportedShape(data) ==
    IF data = "Enum" THEN UnsupportedDataStructureEnum
    ELSE IF data = "Union" THEN UnsupportedDataStructureUnion
    ELSE IF data = "StructUnit" THEN UnsupportedDataStructureUnitStruct
    ELSE UnsupportedDataStructureTupleStruct

\* C10: the analysis of an enum, a union, a unit struct or a tuple struct
\* visits no field, so no attribute is parsed, and it ends with the error of
\* that shape, whatever attributes, well formed or not, the fields carry.
C10_ShapeRejectedBeforeFields ==
    input.data \in DataKinds \ {"StructNamed"} =>
        /\ parsed = <<>>
        /\ out = <<>>
        /\ apc \in {"shape", "done"}
        /\ apc = "done" => aresult = Err(UnsupportedShape(input.data))

\* an enum whose first field carries an attribute the parser rejects was
\* answered with the enum error
C10_Witness ==
    /\ apc = "done"
    /\ input.data = "Enum"
    /\ Len(input.fields) >= 1
    /\ FromField(input.fields[1]).tag = "Err"
    /\ aresult = Err(UnsupportedDataStructureEnum)

----------------------------------------------------------------------------
(* Reading the outcome of an analysis *)

\* the fields the closure of fields() was applied to
Visited == {parsed[k] : k \in 1..Len(parsed)}

\* what the closure returned for a visited field: its output, or what ended
\* the analysis
FieldOutcome(j) == IF j <= Len(out) THEN Ok(out[j]) ELSE aresult

\* the field carries exactly this list of attributes
Annotated(j, attrs) == input.fields[j].attrs = attrs

FieldName(j) == input.fields[j].ident.v

\* positions of the underscores of a name
Underscores(name) == {i \in 1..Len(name) : Chr(name, i) = "_"}

\* the text after the last underscore of a name that has one
AfterLastUnderscore(name) ==
    LET last == CHOOSE i \in Underscores(name) : \A k \in Underscores(name) : k <= i
    IN  SubSeq(name, last + 1, Len(name))

\* C11: a relation field with no explicit referenced key fails with
\* MissingReferencedKey(field name) exactly when its name has no underscore;
\* when it has one, the field is analysed successfully into a relation whose
\* referenced key is the text after the last underscore.
C11_ImplicitReferencedKey ==
    \A j \in Visited :
        Annotated(j, Attr(<<KeyValue("relation", LitStr("Hammer"))>>)) =>
            /\ FieldOutcome(j) = Err(MissingReferencedKey(FieldName(j)))
                  <=> Underscores(FieldName(j)) = {}
            /\ Underscores(FieldName(j)) # {} =>
                  /\ FieldOutcome(j).tag = "Ok"
                  /\ FieldOutcome(j).val.relation.some
                  /\ FieldOutcome(j).val.relation.v.referenced_key =
                         AfterLastUnderscore(FieldName(j))

\* C12: in the darling-based analysis a relation field without a
\* referenced_key fails with MissingReferencedKey(field name), whatever the
\* field name ends with: relation = "Hammer" on hammer_id fails with
\* MissingReferencedKey("hammer_id").
C12_ExplicitKeyRequired ==
    \A j \in Visited :
        Annotated(j, Attr(<<KeyValue("relation", LitStr("Hammer"))>>)) =>
            /\ FieldOutcome(j) = Err(MissingReferencedKey(FieldName(j)))
            /\ apc = "done"
            /\ aresult = Err(MissingReferencedKey(FieldName(j)))

\* hammer_id with relation = "Hammer" alone ended the analysis
C12_Witness ==
    /\ apc = "done"
    /\ idx \in Visited
    /\ FieldName(idx) = "hammer_id"
    /\ Annotated(idx, Attr(<<KeyValue("relation", LitStr("Hammer"))>>))
    /\ aresult = Err(MissingReferencedKey("hammer_id"))

\* the name ends with the given text
EndsWith(name, tail) ==
    /\ Len(name) >= Len(tail)
    /\ SubSeq(name, Len(name) - Len(tail) + 1, Len(name)) = tail

KnownKeys == {"primary_key", "relation", "referenced_key", "extract"}

\* the first annotation of the field is #[fabrique(key = ..)]
StartsWithKey(j) ==
    /\ input.fields[j].attrs # <<>>
    /\ PathIsIdent(input.fields[j].attrs[1].path, "fabrique")
    /\ input.fields[j].attrs[1].meta = "List"
    /\ input.fields[j].attrs[1].parses
    /\ input.fields[j].attrs[1].exprs # <<>>
    /\ input.fields[j].attrs[1].exprs[1].e = "Assign"
    /\ input.fields[j].attrs[1].exprs[1].left.e = "Path"

FirstKey(j) == input.fields[j].attrs[1].exprs[1].left.path

\* ... and that key is none of the keys the specification lists
StartsWithUnknownKey(j) ==
    StartsWithKey(j) /\ FirstKey(j) \notin {<<k>> : k \in KnownKeys}

C15_ExtractIsReferencedKey ==
    \A j \in Visited :
        (/\ FieldName(j) = "hammer"
         /\ Annotated(j, Attr(<<KeyValue("relation", LitStr("Hammer")),
                                KeyValue("extract", LitStr("id"))>>)))
        => /\ FieldOutcome(j).tag = "Ok"
           /\ FieldOutcome(j).val.relation.some
           /\ FieldOutcome(j).val.relation.v.referenced_key = "id"

\* the fields whose analysis did not return an output, in declaration order
Malformed == {j \in 1..Len(input.fields) : AnalyzeField(input.fields[j]).tag # "Ok"}

\* C16: when fields of a struct with named fields are malformed, the
\* analysis returns one error, the error of the first malformed field in
\* declaration order, and no output; no field after that one is looked at.
C16_FirstErrorOnly ==
    (input.data = "StructNamed" /\ apc = "done" /\ Malformed # {}) =>
        LET first == CHOOSE j \in Malformed : \A k \in Malformed : j <= k
        IN  /\ aresult.tag = "Err"
            /\ aresult = AnalyzeField(input.fields[first])
            /\ Visited = 1..first

\* the value given to referenced_key in the first annotation of the field
ReferencedKeyValues(j) ==
    {input.fields[j].attrs[1].exprs[k].right :
        k \in {i \in 1..Len(input.fields[j].attrs[1].exprs) :
                  /\ input.fields[j].attrs[1].exprs[i].e = "Assign"
                  /\ input.fields[j].attrs[1].exprs[i].left = PathExpr(<<"referenced_key">>)}}

\* C17: a referenced_key that names no field identifier, a literal of
\* another kind (123) or a string that is no identifier (""), makes the
\* analysis end with an error value: it returns Err, and no output.
C17_BadReferencedKeyIsAnError ==
    \A j \in Visited :
        (/\ input.fields[j].attrs # <<>>
         /\ PathIsIdent(input.fields[j].attrs[1].path, "fabrique")
         /\ input.fields[j].attrs[1].meta = "List"
         /\ ReferencedKeyValues(j) \cap {LitInt("123"), LitStr("")} # {})
        => /\ apc = "done"
           /\ aresult.tag = "Err"

\* C18: a field annotated #[factory(relation = "Hammer")] is analysed as a
\* relation field: the analysis output has a relation for it, with the
\* factory field <base name>_factory the builder's slot and for_<base name>
\* are generated from.
C18_FactoryNamespaceRelation ==
    \A j \in 1..Len(out) :
        (/\ FieldName(j) = "hammer_id"
         /\ Annotated(j, FactoryNamespace(<<KeyValue("relation", LitStr("Hammer"))>>)))
        => /\ out[j].relation.some
           /\ out[j].relation.v.name = "hammer"
           /\ out[j].relation.v.factory_field = "hammer_factory"

\* the names of the first n fields of the record type, separated by ", "
FirstColumns(n) ==
    IF n = 0 THEN ""
    ELSE IF n = 1 THEN pinput.fields[1].ident.v
    ELSE IF n = 2 THEN pinput.fields[1].ident.v \o ", " \o pinput.fields[2].ident.v
    ELSE pinput.fields[1].ident.v \o ", " \o pinput.fields[2].ident.v
             \o ", " \o pinput.fields[3].ident.v

\* C19: without an identity override the storage identity of a record type
\* is its type name in lower case and in the plural (Anvil: anvils), with an
\* override it is the override (custom_anvils); and the query of the
\* generated all() selects the fields, in declaration order, from that
\* identity.
C19_StorageIdentityAndQuery ==
    /\ panalysis.some =>
          /\ pinput.table.some => panalysis.v.table_name = pinput.table.v
          /\ ~pinput.table.some =>
                panalysis.v.table_name =
                    (IF pinput.ident = "Anvil" THEN "anvils"
                     ELSE IF pinput.ident = "Hammer" THEN "hammers"
                     ELSE "handles")
    /\ (ppc = "done" /\ Len(pinput.fields) <= 3) =>
          pquery = "SELECT " \o FirstColumns(Len(pinput.fields))
                       \o " FROM " \o panalysis.v.table_name

\* struct Anvil { id, weight } without an override: SELECT id, weight FROM anvils
C19_Witness ==
    /\ ppc = "done"
    /\ pinput.ident = "Anvil"
    /\ ~pinput.table.some
    /\ Len(pinput.fields) = 2
    /\ pinput.fields[1].ident.v = "id"
    /\ pinput.fields[2].ident.v = "weight"
    /\ pquery = "SELECT id, weight FROM anvils"

----------------------------------------------------------------------------
(* Reading the order of the Persistable::create calls of a run *)

\* positions of the events of one kind, whatever the record
EventsOfKind(ev) == {k \in 1..Len(log) : log[k].ev = ev}

\* the calls of Persistable::create and its answers, in the order they occur
CallsAndAnswers == SelectSeq(log, LAMBDA e : e.ev \in {"call", "return"})

\* C21: within one create() at most one Persistable::create is in flight at
\* any time (calls and answers alternate, each answer being that of the call
\* before it); nothing is done for a relation before the nested create() of
\* every pending relation declared before it has returned; and
\* Persistable::create is called on the owner only after everything done for
\* its relations, each pending one having returned Ok.
C21_OneCreateInFlight ==
    /\ \A m \in 1..Len(CallsAndAnswers) :
          IF m % 2 = 1
          THEN CallsAndAnswers[m].ev = "call"
          ELSE /\ CallsAndAnswers[m].ev = "return"
               /\ CallsAndAnswers[m].path = CallsAndAnswers[m - 1].path
    /\ \A a, b \in 1..Len(log) :
          (a < b /\ log[a].path # <<>> /\ log[b].path # <<>>) =>
              log[a].path[1] <= log[b].path[1]
    /\ \A b \in 1..Len(log) : \A i \in TopRelIdx :
          (log[b].path # <<>> /\ i < log[b].path[1] /\ Pending(i)) =>
              \E r \in Events("return", <<i>>) : r < b
    /\ \A k \in Events("call", <<>>) :
          /\ \A e \in 1..Len(log) : log[e].path # <<>> => e < k
          /\ \A i \in TopRelIdx :
                Pending(i) =>
                    \E r \in Events("return", <<i>>) : r < k /\ log[r].val.tag = "Ok"

\* an Anvil with a callback pending for both relations was created: the
\* second Hammer was submitted after the first was stored, the Anvil last
C21_Witness ==
    /\ pc = "done"
    /\ builder.ty = "Anvil"
    /\ Pending(1) /\ Pending(2)
    /\ result.tag = "Ok"
    /\ \E r \in Events("return", <<1>>) : \E c \in Events("call", <<2>>) :
          \E k \in Events("call", <<>>) : r < c /\ c < k

\* C22: a create() calls Persistable::create at most once for each record
\* (no second call after a failure); once a Persistable::create has failed
\* nothing more is issued on the connection; and what was issued is never
\* taken back: the records stored for earlier relations stay as they were
\* answered.
C22_NoRetryNoRollback ==
    /\ [](\A k \in EventsOfKind("call") :
              Cardinality(Events("call", log[k].path)) = 1)
    /\ [](\A r \in EventsOfKind("return") :
              log[r].val.tag = "Err" => r = Len(log))
    /\ [][/\ Len(log') >= Len(log)
          /\ SubSeq(log', 1, Len(log)) = log
          /\ \A k \in (Len(log) + 1)..Len(log') :
                log'[k].ev \in {"apply", "call", "return"}]_vars

\* the first Hammer of an Anvil was stored, then the second one failed:
\* create() is over, the first Hammer is still the last record stored
C22_Witness ==
    /\ pc = "done"
    /\ result.tag = "Err"
    /\ builder.ty = "Anvil"
    /\ \E r \in Events("return", <<1>>) : log[r].val.tag = "Ok"
    /\ \E r \in Events("return", <<2>>) : log[r].val = result /\ r = Len(log)
    /\ Events("call", <<>>) = {}

\* C28: the instance create() submits is settled by the last value given to
\* each field setter and the last callback given to each for_<relation>,
\* whatever the order the two kinds of call were chained in: a field whose
\* relation has a callback pending holds the key of the stored related
\* instance (relations that reference the related record's primary key),
\* whether its setter was called before or after for_<relation>, every other
\* field holds the last value set or the default, and the callback applied
\* for a relation is the last one given.
C28_OrderOfCallsIrrelevant ==
    \A k \in Events("call", <<>>) :
        /\ \A f \in FieldNames(builder.ty) :
              (\A i \in TopRelIdx : TopRelations[i].field = f => ~Pending(i)) =>
                  log[k].val[f] = UnwrapOr(hist.set[f], Default)
        /\ \A i \in TopRelIdx :
              Pending(i) =>
                  /\ hist.order[TopRelations[i].ident] \in {"for", "set,for", "for,set"}
                  /\ \A a \in Events("apply", <<i>>) :
                        Some(log[a].val) = hist.cb[TopRelations[i].ident]
                  /\ KeyIsPrimary(TopRelations[i]) =>
                        \E r \in Events("return", <<i>>) :
                            /\ log[r].val.tag = "Ok"
                            /\ log[k].val[TopRelations[i].field] =
                                   log[r].val.val[TopRelations[i].referenced_key]

\* .for_hammer(|h| h.id(2)).hammer_id(1).create(..): the created Anvil has
\* hammer_id = 2, as it has when the two calls are chained the other way round
C28_Witness ==
    /\ pc = "done"
    /\ builder.ty = "Anvil"
    /\ hist.order["hammer_factory"] = "for,set"
    /\ hist.set["hammer_id"] = Some(1)
    /\ hist.cb["hammer_factory"] = Some(<<SetOp("id", 2)>>)
    /\ result.tag = "Ok"
    /\ result.val["hammer_id"] = 2

\* q continues p
ProperPrefix(p, q) == Len(p) < Len(q) /\ SubSeq(q, 1, Len(p)) = p

\* the record at p comes before the record at q in depth-first post-order:
\* p is below q, or p is in the subtree of an earlier relation
PostOrderBefore(p, q) ==
    \/ ProperPrefix(q, p)
    \/ \E m \in 1..Len(p) :
          /\ m <= Len(q)
          /\ SubSeq(p, 1, m - 1) = SubSeq(q, 1, m - 1)
          /\ p[m] < q[m]

\* the callback leaves a callback pending for the relation of that name
LeavesPending(callback, name) ==
    \E m \in 1..Len(callback) : callback[m].op = "for" /\ callback[m].name = name

\* C29: the calls of Persistable::create of one create() come in depth-first
\* post-order: of two calls the earlier one is for a record below the later
\* one or in the subtree of a relation declared earlier; and a record built
\* by a callback that set a relation callback of its own is submitted only
\* after the record of that nested relation was stored.
C29_DepthFirstPostOrder ==
    /\ \A a, b \in EventsOfKind("call") :
          a < b => PostOrderBefore(log[a].path, log[b].path)
    /\ \A a \in EventsOfKind("apply") : \A k \in Events("call", log[a].path) :
          \A i \in 1..Len(Relations(log[a].ty)) :
              LeavesPending(log[a].val, Relations(log[a].ty)[i].name) =>
                  \E c \in Events("call", Append(log[a].path, i)) :
                      \E r \in Events("return", Append(log[a].path, i)) :
                          c < r /\ r < k /\ log[r].val.tag = "Ok"

\* an Anvil whose first Hammer was given a Handle and whose second Hammer was
\* not: the Handle, the first Hammer, the second Hammer and the Anvil were
\* submitted in that order
C29_Witness ==
    /\ pc = "done"
    /\ builder.ty = "Anvil"
    /\ result.tag = "Ok"
    /\ \E h \in Events("call", <<1, 1>>) : \E a \in Events("call", <<1>>) :
          \E b \in Events("call", <<2>>) : \E k \in Events("call", <<>>) :
             /\ h < a /\ a < b /\ b < k
             /\ log[h].ty = "Handle"

\* the callbacks pending in the relations i.. of a factory, and in the
\* factories those callbacks build
RECURSIVE PendingFrom(_, _)
PendingFrom(self, i) ==
    IF i > Len(Relations(self.ty)) THEN 0
    ELSE (IF self.relations[Relations(self.ty)[i].ident].some
          THEN 1 + PendingFrom(
                       ApplyCallback(self.relations[Relations(self.ty)[i].ident].v,
                                     New(Relations(self.ty)[i].ty)),
                       1)
          ELSE 0)
         + PendingFrom(self, i + 1)

\* the number of pending callbacks in the callback tree of a factory
PendingCallbacks(self) == PendingFrom(self, 1)

----------------------------------------------------------------------------
(* Reading the annotations of a field *)

\* the items of all the #[fabrique(..)] attributes of a field, in the order
\* they are written
RECURSIVE ItemsOf(_)
ItemsOf(attrs) ==
    IF attrs = <<>> THEN <<>>
    ELSE IF PathIsIdent(Head(attrs).path, "fabrique") /\ Head(attrs).meta = "List"
    THEN Head(attrs).exprs \o ItemsOf(Tail(attrs))
    ELSE ItemsOf(Tail(attrs))

Items(j) == ItemsOf(input.fields[j].attrs)

\* the item is `key` or `key = ..`
HasKey(x, key) ==
    \/ x.e = "Path" /\ x.path = <<key>>
    \/ x.e = "Assign" /\ x.left = PathExpr(<<key>>)

\* the item is written as the documentation of the keys has it: the flag
\* primary_key, or a key with a string for a boolean, a type name, a field name
PlainItem(x) ==
    \/ x = PathExpr(<<"primary_key">>)
    \/ /\ x.e = "Assign"
       /\ x.right.e = "Lit"
       /\ x.right.lit = "Str"
       /\ \/ x.left = PathExpr(<<"primary_key">>) /\ x.right.text \in {"true", "false"}
          \/ x.left = PathExpr(<<"relation">>) /\ x.right.text \in {"Hammer", "Anvil"}
          \/ x.left = PathExpr(<<"referenced_key">>) /\ x.right.text \in {"id", "weight"}

\* the positions of the items of field j that give the key
Giving(j, key) == {m \in 1..Len(Items(j)) : HasKey(Items(j)[m], key)}

\* the text of the last value given to the key ("true" for a flag)
LastGiven(j, key) ==
    LET m == CHOOSE n \in Giving(j, key) : \A k \in Giving(j, key) : k <= n
    IN  IF Items(j)[m].e = "Path" THEN "true" ELSE Items(j)[m].right.text

\* C23: the keys of all the fabrique attributes of a field end up in one set
\* of attributes, a key given more than once having the value given last,
\* and a repeated key is no error: the analysed field has primary_key as
\* given last (false when never given), a relation exactly when relation was
\* given in some attribute, to the type given last, with the referenced key
\* given last.
C23_AttributesMergedLastWins ==
    \A j \in Visited :
        (\A m \in 1..Len(Items(j)) : PlainItem(Items(j)[m])) =>
            /\ (Giving(j, "relation") = {} \/ Giving(j, "referenced_key") # {}) =>
                  FieldOutcome(j).tag = "Ok"
            /\ FieldOutcome(j).tag = "Ok" =>
                  /\ FieldOutcome(j).val.primary_key =
                        (Giving(j, "primary_key") # {} /\ LastGiven(j, "primary_key") = "true")
                  /\ FieldOutcome(j).val.relation.some <=> Giving(j, "relation") # {}
                  /\ Giving(j, "relation") # {} =>
                        FieldOutcome(j).val.relation.v.referenced_type =
                            LastGiven(j, "relation")
                  /\ (Giving(j, "relation") # {} /\ Giving(j, "referenced_key") # {}) =>
                        FieldOutcome(j).val.relation.v.referenced_key =
                            LastGiven(j, "referenced_key")

\* a field whose first attribute gives relation = "Hammer" and
\* referenced_key = "id" and whose second gives relation = "Anvil", after a
\* field whose primary_key flag is followed by primary_key = "false"
C23_Witness ==
    /\ apc = "done"
    /\ aresult.tag = "Ok"
    /\ Len(out) = 2
    /\ Annotated(1, TwoAttrs(<<PathExpr(<<"primary_key">>)>>,
                             <<KeyValue("primary_key", LitStr("false"))>>))
    /\ ~out[1].primary_key
    /\ Annotated(2, TwoAttrs(<<KeyValue("relation", LitStr("Hammer")),
                               KeyValue("referenced_key", LitStr("id"))>>,
                             <<KeyValue("relation", LitStr("Anvil"))>>))
    /\ out[2].relation.v.referenced_type = "Anvil"
    /\ out[2].relation.v.referenced_key = "id"

\* the item gives relation or referenced_key
GivesRelationOrKey(x) ==
    x.e = "Assign" /\ x.left \in {PathExpr(<<"relation">>), PathExpr(<<"referenced_key">>)}

\* C24: the first item of a field that gives relation or referenced_key a
\* value that cannot be read ends the analysis of the field with
\* UnparsableLiteral when the value is a literal of another kind (a number,
\* a boolean), and with UnparsableType when it is a string that is no
\* identifier.
C24_LiteralOrTypeError ==
    \A j \in Visited : \A m \in 1..Len(Items(j)) :
        (/\ \A k \in 1..(m - 1) : PlainItem(Items(j)[k])
         /\ GivesRelationOrKey(Items(j)[m])
         /\ Items(j)[m].right.e = "Lit")
        => /\ Items(j)[m].right.lit \in {"Bool", "Int"} =>
                 /\ FieldOutcome(j).tag = "Err"
                 /\ FieldOutcome(j).err.tag = "UnparsableLiteral"
           /\ (Items(j)[m].right.lit = "Str" /\ ~IsIdent(Items(j)[m].right.text)) =>
                 /\ FieldOutcome(j).tag = "Err"
                 /\ FieldOutcome(j).err.tag = "UnparsableType"

\* the field carries one fabrique attribute with the one item primary_key = value
PrimaryKeyGiven(j, value) ==
    Annotated(j, Attr(<<KeyValue("primary_key", value)>>))

\* C25: primary_key as a bare flag gives true, with a boolean literal that
\* boolean, with the string "true" or "false" the boolean it spells, not
\* given at all false, and with any other value the analysis of the field
\* fails with UnparsableLiteral.
C25_PrimaryKeyValues ==
    \A j \in Visited :
        /\ Annotated(j, Attr(<<PathExpr(<<"primary_key">>)>>)) =>
              FieldOutcome(j).tag = "Ok" /\ FieldOutcome(j).val.primary_key
        /\ \A b \in BOOLEAN :
              (PrimaryKeyGiven(j, LitBool(b))
                  \/ PrimaryKeyGiven(j, LitStr(IF b THEN "true" ELSE "false"))) =>
                  FieldOutcome(j).tag = "Ok" /\ FieldOutcome(j).val.primary_key = b
        /\ Annotated(j, <<>>) =>
              FieldOutcome(j).tag = "Ok" /\ ~FieldOutcome(j).val.primary_key
        /\ (PrimaryKeyGiven(j, LitStr("maybe")) \/ PrimaryKeyGiven(j, LitInt("123"))) =>
              /\ FieldOutcome(j).tag = "Err"
              /\ FieldOutcome(j).err.tag = "UnparsableLiteral"

\* C26: in the output of a successful analysis a field has a relation
\* exactly when one of its fabrique attributes gives the key relation, as a
\* string or as a type path.
C26_RelationIffRelationKey ==
    (apc = "done" /\ aresult.tag = "Ok") =>
        \A j \in 1..Len(aresult.val.fields) :
            aresult.val.fields[j].relation.some <=> Giving(j, "relation") # {}

\* C27: in the output of a successful analysis of a struct whose fields have
\* different names, two relation fields never have the same base name or
\* the same factory field.
C27_DistinctRelationNames ==
    (apc = "done" /\ aresult.tag = "Ok") =>
        \A j, k \in 1..Len(aresult.val.fields) :
            (/\ j # k
             /\ FieldName(j) # FieldName(k)
             /\ aresult.val.fields[j].relation.some
             /\ aresult.val.fields[k].relation.some)
            => /\ aresult.val.fields[j].relation.v.name #
                      aresult.val.fields[k].relation.v.name
               /\ aresult.val.fields[j].relation.v.factory_field #
                      aresult.val.fields[k].relation.v.factory_field

=============================================================================
